---------------------------- MODULE Spec2Model ----------------------------
(***************************************************************************)
(* Model of the cteepbd command-line driver (src/src/bin/cteepbd.rs) and   *)
(* of the RenNrenCo2 triple (src/src/rennrenco2.rs).                       *)
(*                                                                         *)
(* One run of main() is a behaviour: Init fixes the command line and the   *)
(* contents of the input files, and each action is one step of main(), in  *)
(* program order.  exit() calls end the run with the exit code recorded.   *)
(*                                                                         *)
(* Numbers.  An f32 is modelled by an integer n standing for n / Unit,     *)
(* with Unit a power of two: every modelled value is a dyadic rational     *)
(* that f32 represents exactly, so the subtractions and comparisons of the *)
(* driver are exact on the grid.  The f32 literal 1e-3 lies strictly       *)
(* between 2/Unit and 3/Unit.  Texts (command-line values, metadata        *)
(* values) are records distinct from the numbers they parse to.            *)
(***************************************************************************)
EXTENDS Integers, Sequences, FiniteSets, TLC

VARIABLES
    matches,      \* clap::ArgMatches: the command line as given
    files,        \* the input files as found on disk
    components,   \* Components {cmeta, cdata}
    pc,           \* position in main()
    exitcode,     \* "running" until the process ends
    stdout,       \* notices printed so far (AVISO lines, balance branch)
    user_wf,      \* cte::CteUserWF
    fpdata,       \* the weighting factors table
    arearef,      \* Option<f32> resolved by get_arearef
    kexp,         \* Option<f32> resolved by get_kexp
    written,      \* output files written so far
    engine,       \* calls of energy_performance: sequence of argument records
    calc          \* a computation of the library on its own: operands and result

vars == << matches, files, components, pc, exitcode, stdout, user_wf, fpdata,
           arearef, kexp, written, engine, calc >>

---------------------------------------------------------------------------
(* Bounds of the model *)

\* Grid values 0..MaxSmall (in 1/Unit) are drawn around 0 and around 1.0
MaxSmall == 3

\* Largest number of component rows of the components file
MaxRows == 2

---------------------------------------------------------------------------
(* Numbers and texts *)

\* Scale of the f32 grid: the value n stands for n / Unit
Unit == 2 ^ 11

None == << >>
Some(x) == << x >>
IsSome(o) == Len(o) = 1
Get(o) == o[1]

Abs(x) == IF x < 0 THEN -x ELSE x

\* a / b rounded to the nearest integer, ties to even (b > 0)
RoundDiv(a, b) ==
    LET q == a \div b
        r == a % b
    IN  IF 2 * r < b THEN q
        ELSE IF 2 * r > b THEN q + 1
        ELSE IF q % 2 = 0 THEN q ELSE q + 1

\* A text holding a comma-separated list of decimal numerals, each <<num, den>>
NumText(nums, den) ==
    [k |-> "num", s |-> "", v |-> [i \in 1..Len(nums) |-> << nums[i], den >>]]

\* A text that is not a numeral
StrText(str) == [k |-> "str", s |-> str, v |-> << >>]

\* f32::from_str on one numeral: the nearest value of the grid
ParseNumeral(nd) == RoundDiv(nd[1] * Unit, nd[2])

\* f32::from_str(text): Option<f32>
ParseF32(text) ==
    IF text.k = "num" /\ Len(text.v) = 1 THEN Some(ParseNumeral(text.v[1])) ELSE None

\* format!("{:.p}") of an f32, den = 10^p
Fmt(n, den) == << RoundDiv(n * den, Unit), den >>

FmtText(n, den) == [k |-> "num", s |-> "", v |-> << Fmt(n, den) >>]

\* x > 1e-3 for a grid value x
Gt1em3(x) == x * 1000 > Unit


---------------------------------------------------------------------------
(* The command line: clap's App of main() and the ArgMatches accessors *)

\* Arguments declared by main(), with default_value where one is declared
DeclaredArgs ==
    { "arearef", "kexp", "archivo_componentes", "archivo_factores", "fps_loc",
      "gen_archivo_componentes", "gen_archivo_factores", "archivo_salida_json",
      "archivo_salida_xml", "archivo_salida_txt", "cogen", "red1", "red2",
      "acsnrb", "nosimplificafps", "showlicense" }

\* .default_value("1.0") of arearef and .default_value("0.0") of kexp
DefaultValue ==
    [arearef |-> NumText(<< Unit >>, Unit), kexp |-> NumText(<< 0 >>, Unit)]

\* .possible_values of fps_loc
PossibleLocs == { "PENINSULA", "CANARIAS", "BALEARES", "CEUTAMELILLA" }

\* .value_names and .number_of_values of the user factor options
ValueNames == [cogen |-> 3, red1 |-> 3, red2 |-> 3]
NumberOfValues == [cogen |-> 3, red1 |-> 3, red2 |-> 2]

\* The arity clap 2 gives a multi-valued option: the last .number_of_values
\* call alone (the reading under which --red2 takes two values)
NumValsAsLastCall(name) == NumberOfValues[name]

\* The arity clap 2 gives a multi-valued option when the App is built: with
\* more than one value name, the number of value names (Arg::value_names
\* "implicitly sets Arg::number_of_values"; the builder fills it in when the
\* argument is added, after every setter of the chain has run)
NumVals(name) ==
    IF ValueNames[name] > 1 THEN ValueNames[name] ELSE NumberOfValues[name]

\* ArgMatches::occurrences_of
occurrences_of(m, name) ==
    IF name \in DOMAIN m /\ IsSome(m[name]) THEN 1 ELSE 0

\* ArgMatches::is_present: an argument with a default value is always present
is_present(m, name) ==
    /\ name \in DOMAIN m
    /\ (IsSome(m[name]) \/ name \in DOMAIN DefaultValue)

\* ArgMatches::values_of: None for a name the App does not declare
values_of(m, name) ==
    IF name \notin DOMAIN m THEN None
    ELSE IF IsSome(m[name]) /\ Len(Get(m[name])) > 0 THEN m[name]
    ELSE IF name \in DOMAIN DefaultValue THEN Some(<< DefaultValue[name] >>)
    ELSE None

\* ArgMatches::value_of: the first value
value_of(m, name) ==
    IF IsSome(values_of(m, name)) THEN Some(Get(values_of(m, name))[1]) ELSE None

\* value_t!(matches, name, f32): Ok(f32) or Err
value_t_f32(m, name) ==
    IF IsSome(value_of(m, name)) THEN ParseF32(Get(value_of(m, name))) ELSE None

\* App::get_matches: TRUE when clap accepts the command line
ClapAccepts(m) ==
    LET given(n) == IsSome(m[n])
    IN  \* required_unless_one of archivo_factores and of fps_loc
        /\ given("archivo_factores") \/ given("fps_loc") \/ given("archivo_componentes")
        \* conflicts_with_all of archivo_factores
        /\ given("archivo_factores") =>
              ~ \E n \in { "fps_loc", "cogen", "red1", "red2" } : given(n)
        \* possible_values of fps_loc
        /\ given("fps_loc") =>
              /\ Get(m.fps_loc)[1].k = "str"
              /\ Get(m.fps_loc)[1].s \in PossibleLocs
        \* requires of acsnrb
        /\ given("acsnrb") => given("archivo_componentes")
        \* number of values of the user factor options
        /\ \A n \in { "cogen", "red1", "red2" } :
              given(n) => Len(Get(m[n])) = NumVals(n)

---------------------------------------------------------------------------
(* Components and their metadata (cteepbd::Components, cteepbd::cte) *)

MetaKeys ==
    { "CTE_AREAREF", "CTE_KEXP", "CTE_LOCALIZACION", "CTE_RED1", "CTE_RED2",
      "CTE_COGEN", "CTE_COGENNEPB" }

NoMeta == [key \in MetaKeys |-> None]

\* Default::default() of Components
DefaultComponents == [cmeta |-> NoMeta, cdata |-> << >>]

has_meta(c, key) == IsSome(c.cmeta[key])

\* Components::get_meta: the value as a string
get_meta(c, key) == c.cmeta[key]

\* Components::get_meta_f32: the value parsed as f32, None when it does not parse
get_meta_f32(c, key) ==
    IF has_meta(c, key) THEN ParseF32(Get(c.cmeta[key])) ELSE None

\* Components::get_meta_rennren: "ren, nren, co2" parsed, None when it does not parse
get_meta_rennren(c, key) ==
    IF has_meta(c, key) /\ Get(c.cmeta[key]).k = "num" /\ Len(Get(c.cmeta[key]).v) = 3
    THEN LET v == Get(c.cmeta[key]).v
         IN  Some([ren |-> ParseNumeral(v[1]), nren |-> ParseNumeral(v[2]),
                   co2 |-> ParseNumeral(v[3])])
    ELSE None

\* Components::update_meta: sets or adds the key
update_meta(c, key, text) == [c EXCEPT !.cmeta[key] = Some(text)]

\* cte::components_by_service: the rows of one service, the metadata kept
components_by_service(c, service) ==
    [c EXCEPT !.cdata = SelectSeq(c.cdata, LAMBDA row : row.service = service)]

---------------------------------------------------------------------------
(* Helpers of the driver *)

\* cte::KEXP_DEFAULT (0.0) and cte::AREAREF_DEFAULT (1.0)
KEXP_DEFAULT == 0
AREAREF_DEFAULT == Unit

\* The outcome of a helper that may call exit(): code "" when it returns
Return(out) == [code |-> "", out |-> out]
ExitWith(code, out) == [code |-> code, out |-> out]

\* validate_kexp: exit code and lines printed
validate_kexp(m) ==
    IF is_present(m, "kexp")
    THEN LET v == value_t_f32(m, "kexp")
         IN  IF ~ IsSome(v) THEN ExitWith("DATAERR", {})
             ELSE IF Get(v) < 0 \/ Get(v) > Unit THEN ExitWith("DATAERR", {})
             ELSE IF Get(v) # KEXP_DEFAULT THEN Return({ "AVISO_KEXP_NO_REGLAMENTARIO" })
             ELSE Return({})
    ELSE Return({})

\* validate_arearef: exit code and lines printed
validate_arearef(m) ==
    IF is_present(m, "arearef")
    THEN LET v == value_t_f32(m, "arearef")
         IN  IF ~ IsSome(v) THEN ExitWith("DATAERR", {})
             ELSE IF ~ Gt1em3(Get(v)) THEN ExitWith("DATAERR", {})
             ELSE Return({})
    ELSE Return({})

\* get_scalar with the difference compared without its absolute value
get_scalarSigned(c, m, key, name, default, aviso) ==
    IF has_meta(c, key)
    THEN LET meta == get_meta_f32(c, key)
         IN  IF ~ IsSome(meta) THEN [code |-> "DATAERR", out |-> {}, value |-> None]
             ELSE IF occurrences_of(m, name) = 0
             THEN [code |-> "", out |-> {}, value |-> meta]
             ELSE LET cli == value_t_f32(m, name)
                  IN  IF ~ IsSome(cli) THEN [code |-> "PANIC", out |-> {}, value |-> None]
                      ELSE [code |-> "",
                            out |-> IF Gt1em3(Get(meta) - Get(cli)) THEN { aviso } ELSE {},
                            value |-> cli]
    ELSE IF occurrences_of(m, name) # 0
    THEN LET cli == value_t_f32(m, name)
         IN  IF ~ IsSome(cli) THEN [code |-> "PANIC", out |-> {}, value |-> None]
             ELSE [code |-> "", out |-> {}, value |-> cli]
    ELSE [code |-> "", out |-> {}, value |-> Some(default)]

\* The body shared by get_arearef and get_kexp, which differ in the metadata
\* key, the option, the default and the notice: [code, out, value]
get_scalar(c, m, key, name, default, aviso) ==
    IF has_meta(c, key)
    THEN LET meta == get_meta_f32(c, key)
         IN  IF ~ IsSome(meta) THEN [code |-> "DATAERR", out |-> {}, value |-> None]
             ELSE IF occurrences_of(m, name) = 0
             THEN [code |-> "", out |-> {}, value |-> meta]
             ELSE LET cli == value_t_f32(m, name)
                  IN  IF ~ IsSome(cli) THEN [code |-> "PANIC", out |-> {}, value |-> None]
                      ELSE [code |-> "",
                            out |-> IF Gt1em3(Abs(Get(meta) - Get(cli))) THEN { aviso } ELSE {},
                            value |-> cli]
    ELSE IF occurrences_of(m, name) # 0
    THEN LET cli == value_t_f32(m, name)
         IN  IF ~ IsSome(cli) THEN [code |-> "PANIC", out |-> {}, value |-> None]
             ELSE [code |-> "", out |-> {}, value |-> cli]
    ELSE [code |-> "", out |-> {}, value |-> Some(default)]

get_arearef(c, m) ==
    get_scalar(c, m, "CTE_AREAREF", "arearef", AREAREF_DEFAULT, "AVISO_AREAREF_NO_COINCIDE")

get_kexp(c, m) ==
    get_scalar(c, m, "CTE_KEXP", "kexp", KEXP_DEFAULT, "AVISO_KEXP_NO_COINCIDE")

\* format!("{:.3}, {:.3}, {:.3}", factor.ren, factor.nren, factor.co2)
FactorText(f) ==
    [k |-> "num", s |-> "", v |-> << Fmt(f.ren, 1000), Fmt(f.nren, 1000), Fmt(f.co2, 1000) >>]

\* get_factor with the metadata consulted before the command line
get_factorMetaFirst(matches_values, c, meta) ==
    LET fromMeta == get_meta_rennren(c, meta)
        cli ==
            IF ~ IsSome(matches_values) \/ IsSome(fromMeta) THEN [code |-> "", factor |-> None]
            ELSE LET v == Get(matches_values)
                     vv == [i \in 1..Len(v) |-> ParseF32(v[i])]
                 IN  IF \E i \in 1..Len(v) : ~ IsSome(vv[i])
                     THEN [code |-> "DATAERR", factor |-> None]
                     ELSE IF Len(v) < 3 THEN [code |-> "PANIC", factor |-> None]
                     ELSE [code |-> "",
                           factor |-> Some([ren |-> Get(vv[1]), nren |-> Get(vv[2]),
                                            co2 |-> Get(vv[3])])]
        factor == IF IsSome(fromMeta) THEN fromMeta ELSE cli.factor
    IN  IF cli.code # "" THEN [code |-> cli.code, factor |-> None, components |-> c]
        ELSE [code |-> "", factor |-> factor,
              components |-> IF IsSome(factor)
                             THEN update_meta(c, meta, FactorText(Get(factor)))
                             ELSE c]

\* get_factor: [code, factor, components].  The values of the command line
\* are parsed one by one (exit DATAERR on the first that is no number), then
\* indexed 0, 1, 2 (a panic when fewer than three were collected)
get_factor(matches_values, c, meta) ==
    LET cli ==
            IF ~ IsSome(matches_values) THEN [code |-> "", factor |-> None]
            ELSE LET v == Get(matches_values)
                     vv == [i \in 1..Len(v) |-> ParseF32(v[i])]
                 IN  IF \E i \in 1..Len(v) : ~ IsSome(vv[i])
                     THEN [code |-> "DATAERR", factor |-> None]
                     ELSE IF Len(v) < 3 THEN [code |-> "PANIC", factor |-> None]
                     ELSE [code |-> "",
                           factor |-> Some([ren |-> Get(vv[1]), nren |-> Get(vv[2]),
                                            co2 |-> Get(vv[3])])]
        factor == IF IsSome(cli.factor) THEN cli.factor ELSE get_meta_rennren(c, meta)
    IN  IF cli.code # "" THEN [code |-> cli.code, factor |-> None, components |-> c]
        ELSE [code |-> "", factor |-> factor,
              components |-> IF IsSome(factor)
                             THEN update_meta(c, meta, FactorText(Get(factor)))
                             ELSE c]

\* The four calls with the metadata key of the third repeated in the fourth
UserWFCallsRepeatedKey ==
    << [field |-> "red1", name |-> "red1", meta |-> "CTE_RED1"],
       [field |-> "red2", name |-> "red2", meta |-> "CTE_RED2"],
       [field |-> "cogen_to_grid", name |-> "cogen", meta |-> "CTE_COGEN"],
       [field |-> "cogen_to_nepb", name |-> "cogennepb", meta |-> "CTE_COGEN"] >>

\* The four calls of get_factor that build user_wf, in order: field of
\* CteUserWF, name asked of the matches, metadata key
UserWFCalls ==
    << [field |-> "red1", name |-> "red1", meta |-> "CTE_RED1"],
       [field |-> "red2", name |-> "red2", meta |-> "CTE_RED2"],
       [field |-> "cogen_to_grid", name |-> "cogen", meta |-> "CTE_COGEN"],
       [field |-> "cogen_to_nepb", name |-> "cogennepb", meta |-> "CTE_COGENNEPB"] >>

NoUserWF ==
    [red1 |-> None, red2 |-> None, cogen_to_grid |-> None, cogen_to_nepb |-> None]

NoFpdata ==
    [origin |-> "unset", loc |-> "", user_wf |-> NoUserWF, carriers |-> {}, ops |-> << >>]

---------------------------------------------------------------------------
(* Inputs of a run *)

NoArgs == [n \in DeclaredArgs |-> None]

\* An option given with these values (none for a flag)
Given(values) == Some(values)
Flag(b) == IF b THEN Given(<< >>) ELSE None
Path(b) == IF b THEN Given(<< StrText("path") >>) ELSE None

\* Values of the f32 grid that the inputs are drawn from
GridVals ==
    { -1 } \cup 0..MaxSmall \cup { Unit + d : d \in 0..MaxSmall } \cup { Unit \div 2 }

\* Texts given for a scalar: numerals of the grid and one text that is no number
ScalarTexts == { NumText(<< n >>, Unit) : n \in GridVals } \cup { StrText("abc") }

FewScalarTexts ==
    { NumText(<< n >>, Unit) : n \in { 0, Unit \div 2, Unit + MaxSmall } }

OptCli(texts) == { None } \cup { Given(<< t >>) : t \in texts }
OptMeta(texts) == { None } \cup { Some(t) : t \in texts }

\* Component rows: carrier and service are what the driver depends on
Rows ==
    { [carrier |-> "ELECTRICIDAD", service |-> "ACS"],
      [carrier |-> "GASNATURAL", service |-> "CAL"] }

RECURSIVE SeqsUpTo(_, _)
SeqsUpTo(S, n) ==
    IF n = 0 THEN { << >> }
    ELSE LET shorter == SeqsUpTo(S, n - 1)
         IN  shorter \cup { Append(q, x) : q \in shorter, x \in S }

CDatas == SeqsUpTo(Rows, MaxRows)

SomeRows == << [carrier |-> "ELECTRICIDAD", service |-> "ACS"] >>

\* Values given for a user factor on the command line: three numerals, two
\* numerals, or three values of which one is no number
T1 == << 0, Unit, 2 * Unit >>
MetaT(j) == << 3 + j, Unit + j, Unit \div 2 >>
CliFactors ==
    { None,
      Given([i \in 1..3 |-> NumText(<< T1[i] >>, Unit)]),
      Given([i \in 1..2 |-> NumText(<< T1[i] >>, Unit)]),
      Given(<< NumText(<< 0 >>, Unit), StrText("abc"), NumText(<< Unit >>, Unit) >>) }

\* Values of a user factor in the metadata: a triple (one per key j), or a
\* text that is none
MetaFactors(j) == { None, Some(NumText(MetaT(j), Unit)), Some(StrText("abc")) }

MetaLocs == { None, Some(StrText("BALEARES")), Some(StrText("MARTE")) }
CliLocs == { None, Given(<< StrText("PENINSULA") >>), Given(<< StrText("MARTE") >>) }

FileStatus == { "ok", "unreadable", "malformed" }

\* No computation of the library on its own
NoCalc == [op |-> "none"]

\* The run starts in main() with nothing computed
Start(m, f) ==
    /\ matches = m
    /\ files = f
    /\ components = DefaultComponents
    /\ pc = "get_matches"
    /\ exitcode = "running"
    /\ stdout = {}
    /\ user_wf = NoUserWF
    /\ fpdata = NoFpdata
    /\ arearef = None
    /\ kexp = None
    /\ written = << >>
    /\ engine = << >>
    /\ calc = NoCalc

File(status, cmeta, cdata) ==
    [components |-> [status |-> status, cmeta |-> cmeta, cdata |-> cdata],
     factors |-> [status |-> "ok"]]

BaseArgs ==
    [NoArgs EXCEPT !.archivo_componentes = Path(TRUE),
                   !.fps_loc = Given(<< StrText("PENINSULA") >>)]

\* Runs that vary the area of reference on the command line and in the metadata
InitArearef ==
    \E cli \in OptCli(ScalarTexts), meta \in OptMeta(ScalarTexts),
       k \in OptCli(FewScalarTexts), cdata \in { << >>, SomeRows } :
        Start([BaseArgs EXCEPT !.arearef = cli, !.kexp = k],
              File("ok", [NoMeta EXCEPT !["CTE_AREAREF"] = meta], cdata))

\* Runs that vary the exported energy factor on the command line and in the metadata
InitKexp ==
    \E cli \in OptCli(ScalarTexts), meta \in OptMeta(ScalarTexts),
       a \in OptCli(FewScalarTexts), cdata \in { << >>, SomeRows } :
        Start([BaseArgs EXCEPT !.kexp = cli, !.arearef = a],
              File("ok", [NoMeta EXCEPT !["CTE_KEXP"] = meta], cdata))

\* Runs that vary both scalars over a few values
InitScalars ==
    \E ca \in OptCli(FewScalarTexts), ma \in OptMeta(FewScalarTexts),
       ck \in OptCli(FewScalarTexts), mk \in OptMeta(FewScalarTexts) :
        Start([BaseArgs EXCEPT !.arearef = ca, !.kexp = ck],
              File("ok", [NoMeta EXCEPT !["CTE_AREAREF"] = ma, !["CTE_KEXP"] = mk], SomeRows))

\* Runs that vary where the factors come from
InitLocality ==
    \E c \in BOOLEAN, cs \in FileStatus, f \in BOOLEAN, fs \in FileStatus,
       loc \in CliLocs, mloc \in MetaLocs, lic \in BOOLEAN, nrb \in BOOLEAN,
       k \in OptCli({ NumText(<< Unit + 1 >>, Unit) }), cdata \in { << >>, SomeRows } :
        Start([NoArgs EXCEPT !.archivo_componentes = Path(c),
                             !.archivo_factores = Path(f),
                             !.fps_loc = loc, !.showlicense = Flag(lic),
                             !.acsnrb = Flag(nrb), !.kexp = k],
              [File(cs, [NoMeta EXCEPT !["CTE_LOCALIZACION"] = mloc], cdata)
                  EXCEPT !.factors.status = fs])

\* Runs that vary the components and the outputs asked for
InitOutputs ==
    \E c \in BOOLEAN, cdata \in CDatas, oc \in BOOLEAN, of \in BOOLEAN,
       json \in BOOLEAN, xml \in BOOLEAN, txt \in BOOLEAN, nrb \in BOOLEAN,
       nosimp \in BOOLEAN :
        Start([BaseArgs EXCEPT !.archivo_componentes = Path(c),
                               !.gen_archivo_componentes = Path(oc),
                               !.gen_archivo_factores = Path(of),
                               !.archivo_salida_json = Path(json),
                               !.archivo_salida_xml = Path(xml),
                               !.archivo_salida_txt = Path(txt),
                               !.acsnrb = Flag(nrb),
                               !.nosimplificafps = Flag(nosimp)],
              File("ok", NoMeta, cdata))

\* Runs that vary the user factors on the command line and in the metadata
InitFactors ==
    \E r1 \in CliFactors, r2 \in CliFactors, cg \in CliFactors,
       m1 \in MetaFactors(1), m2 \in MetaFactors(2), mg \in MetaFactors(3),
       mn \in MetaFactors(4),
       f \in BOOLEAN :
        Start([BaseArgs EXCEPT !.red1 = r1, !.red2 = r2, !.cogen = cg,
                               !.archivo_factores = Path(f),
                               !.fps_loc = IF f THEN None ELSE @],
              File("ok", [NoMeta EXCEPT !["CTE_RED1"] = m1, !["CTE_RED2"] = m2,
                                        !["CTE_COGEN"] = mg, !["CTE_COGENNEPB"] = mn],
                   SomeRows))

Init ==
    \/ InitArearef
    \/ InitKexp
    \/ InitScalars
    \/ InitLocality
    \/ InitOutputs
    \/ InitFactors

---------------------------------------------------------------------------
(* The steps of main(), in program order *)

Running(at) == pc = at /\ exitcode = "running"

\* exit(code): the process ends where it stands
Exit(code) == exitcode' = code /\ pc' = pc

Goto(next) == pc' = next /\ exitcode' = exitcode

\* App::get_matches: clap ends the process with code 1 on a usage error
GetMatches ==
    /\ Running("get_matches")
    /\ UNCHANGED calc
    /\ IF ClapAccepts(matches) THEN Goto("showlicense") ELSE Exit("CLAP_USAGE")
    /\ UNCHANGED << matches, files, components, stdout, user_wf, fpdata, arearef, kexp,
                    written, engine >>

ShowLicense ==
    /\ Running("showlicense")
    /\ UNCHANGED calc
    /\ IF is_present(matches, "showlicense") THEN Exit("OK") ELSE Goto("get_components")
    /\ UNCHANGED << matches, files, components, stdout, user_wf, fpdata, arearef, kexp,
                    written, engine >>

\* get_components(matches.value_of("archivo_componentes"))
GetComponents ==
    /\ Running("get_components")
    /\ UNCHANGED calc
    /\ IF IsSome(value_of(matches, "archivo_componentes"))
       THEN CASE files.components.status = "unreadable" ->
                    Exit("IOERR") /\ UNCHANGED components
              [] files.components.status = "malformed" ->
                    Exit("DATAERR") /\ UNCHANGED components
              [] OTHER ->
                    /\ components' = [cmeta |-> files.components.cmeta,
                                      cdata |-> files.components.cdata]
                    /\ Goto("components_by_service")
       ELSE components' = DefaultComponents /\ Goto("components_by_service")
    /\ UNCHANGED << matches, files, stdout, user_wf, fpdata, arearef, kexp, written, engine >>

\* if matches.is_present("acsnrb") { components = components_by_service(ACS) }
ComponentsByService ==
    /\ Running("components_by_service")
    /\ UNCHANGED calc
    /\ components' = IF is_present(matches, "acsnrb")
                     THEN components_by_service(components, "ACS")
                     ELSE components
    /\ Goto("validate_kexp")
    /\ UNCHANGED << matches, files, stdout, user_wf, fpdata, arearef, kexp, written, engine >>

ValidateKexp ==
    /\ Running("validate_kexp")
    /\ UNCHANGED calc
    /\ LET r == validate_kexp(matches)
       IN  /\ stdout' = stdout \cup r.out
           /\ IF r.code # "" THEN Exit(r.code) ELSE Goto("validate_arearef")
    /\ UNCHANGED << matches, files, components, user_wf, fpdata, arearef, kexp, written,
                    engine >>

ValidateArearef ==
    /\ Running("validate_arearef")
    /\ UNCHANGED calc
    /\ LET r == validate_arearef(matches)
       IN  /\ stdout' = stdout \cup r.out
           /\ IF r.code # "" THEN Exit(r.code) ELSE Goto("get_factor_1")
    /\ UNCHANGED << matches, files, components, user_wf, fpdata, arearef, kexp, written,
                    engine >>

\* The i-th field of user_wf: get_factor(matches.values_of(name), &mut components, meta)
GetUserWF(i) ==
    /\ Running(<< "get_factor_1", "get_factor_2", "get_factor_3", "get_factor_4" >>[i])
    /\ UNCHANGED calc
    /\ LET call == UserWFCalls[i]
           r == get_factor(values_of(matches, call.name), components, call.meta)
       IN  /\ components' = r.components
           /\ user_wf' = [user_wf EXCEPT ![call.field] = r.factor]
           /\ IF r.code # "" THEN Exit(r.code)
              ELSE Goto(<< "get_factor_2", "get_factor_3", "get_factor_4", "wfactors" >>[i])
    /\ UNCHANGED << matches, files, stdout, fpdata, arearef, kexp, written, engine >>

\* The carriers a prepared factor table has rows for: those of the components
\* used here and one that no component uses
TableCarriers == {"ELECTRICIDAD", "GASNATURAL", "BIOMASA"}

\* The carriers of the component data rows
CarriersOf(c) == {c.cdata[i].carrier : i \in 1..Len(c.cdata)}

\* cte::strip_wfactors drops the factor rows whose carrier no component uses
strip_wfactors(fp, c) ==
    [fp EXCEPT !.carriers = @ \cap CarriersOf(c), !.ops = Append(@, "strip_wfactors")]

\* cte::wfactors_to_nearby rewrites the factor values in place, rows kept
wfactors_to_nearby(fp) == [fp EXCEPT !.ops = Append(@, "wfactors_to_nearby")]

\* cte::wfactors_from_loc fails for a locality that WF_RITE2014 does not hold
wfactors_from_loc_ok(loc) == loc \in PossibleLocs

\* The locality with the metadata consulted before the option
localizacionMetaFirst(m, c) ==
    IF IsSome(get_meta(c, "CTE_LOCALIZACION")) THEN get_meta(c, "CTE_LOCALIZACION")
    ELSE value_of(m, "fps_loc")

\* The locality of the factors: the option, else the metadata, else none
localizacion(m, c) ==
    IF IsSome(value_of(m, "fps_loc")) THEN value_of(m, "fps_loc")
    ELSE get_meta(c, "CTE_LOCALIZACION")

\* let mut fpdata = if let Some(archivo_factores) ... else ...
GetWFactors ==
    /\ Running("wfactors")
    /\ UNCHANGED calc
    /\ IF IsSome(value_of(matches, "archivo_factores"))
       THEN CASE files.factors.status = "unreadable" ->
                    Exit("IOERR") /\ UNCHANGED << components, fpdata >>
              [] files.factors.status = "malformed" ->
                    Exit("DATAERR") /\ UNCHANGED << components, fpdata >>
              [] OTHER ->
                    /\ fpdata' = [origin |-> "file", loc |-> "", user_wf |-> user_wf,
                                  carriers |-> TableCarriers, ops |-> << >>]
                    /\ Goto("strip_wfactors")
                    /\ UNCHANGED components
       ELSE LET loc == localizacion(matches, components)
            IN  /\ components' = IF IsSome(value_of(matches, "fps_loc"))
                                 THEN update_meta(components, "CTE_LOCALIZACION",
                                                  Get(value_of(matches, "fps_loc")))
                                 ELSE components
                /\ IF ~ IsSome(loc) THEN Exit("USAGE") /\ UNCHANGED fpdata
                   ELSE IF ~ wfactors_from_loc_ok(Get(loc).s)
                   THEN Exit("DATAERR") /\ UNCHANGED fpdata
                   ELSE /\ fpdata' = [origin |-> "loc", loc |-> Get(loc).s,
                                      user_wf |-> user_wf, carriers |-> TableCarriers,
                                      ops |-> << >>]
                        /\ Goto("strip_wfactors")
    /\ UNCHANGED << matches, files, stdout, user_wf, arearef, kexp, written, engine >>

\* The factor table simplified whatever --no_simplifica_fps says
StripWFactorsFlagIgnored ==
    /\ Running("strip_wfactors")
    /\ UNCHANGED calc
    /\ fpdata' = IF components.cdata # << >> THEN strip_wfactors(fpdata, components)
                 ELSE fpdata
    /\ Goto("wfactors_to_nearby")
    /\ UNCHANGED << matches, files, components, stdout, user_wf, arearef, kexp, written,
                    engine >>

\* if !nosimplificafps && !cdata.is_empty() { cte::strip_wfactors(..) }
StripWFactors ==
    /\ Running("strip_wfactors")
    /\ UNCHANGED calc
    /\ fpdata' = IF ~ is_present(matches, "nosimplificafps") /\ components.cdata # << >>
                 THEN strip_wfactors(fpdata, components)
                 ELSE fpdata
    /\ Goto("wfactors_to_nearby")
    /\ UNCHANGED << matches, files, components, stdout, user_wf, arearef, kexp, written,
                    engine >>

\* The nearby rewrite tested on the simplification switch instead of --acs_nearby
WFactorsToNearbyWrongSwitch ==
    /\ Running("wfactors_to_nearby")
    /\ UNCHANGED calc
    /\ fpdata' = IF is_present(matches, "nosimplificafps")
                 THEN wfactors_to_nearby(fpdata)
                 ELSE fpdata
    /\ Goto("get_arearef")
    /\ UNCHANGED << matches, files, components, stdout, user_wf, arearef, kexp, written,
                    engine >>

\* if acsnrb { fpdata = cte::wfactors_to_nearby(&fpdata) }
WFactorsToNearby ==
    /\ Running("wfactors_to_nearby")
    /\ UNCHANGED calc
    /\ fpdata' = IF is_present(matches, "acsnrb")
                 THEN wfactors_to_nearby(fpdata)
                 ELSE fpdata
    /\ Goto("get_arearef")
    /\ UNCHANGED << matches, files, components, stdout, user_wf, arearef, kexp, written,
                    engine >>

\* let arearef = get_arearef(..); components.update_meta("CTE_AREAREF", "{:.2}")
GetArearef ==
    /\ Running("get_arearef")
    /\ UNCHANGED calc
    /\ LET r == get_arearef(components, matches)
       IN  /\ stdout' = stdout \cup r.out
           /\ arearef' = r.value
           /\ IF r.code # "" THEN Exit(r.code) /\ UNCHANGED components
              ELSE /\ components' = update_meta(components, "CTE_AREAREF",
                                                FmtText(Get(r.value), 100))
                   /\ Goto("get_kexp")
    /\ UNCHANGED << matches, files, user_wf, fpdata, kexp, written, engine >>

\* let kexp = get_kexp(..); components.update_meta("CTE_KEXP", "{:.1}")
GetKexp ==
    /\ Running("get_kexp")
    /\ UNCHANGED calc
    /\ LET r == get_kexp(components, matches)
       IN  /\ stdout' = stdout \cup r.out
           /\ kexp' = r.value
           /\ IF r.code # "" THEN Exit(r.code) /\ UNCHANGED components
              ELSE /\ components' = update_meta(components, "CTE_KEXP",
                                                FmtText(Get(r.value), 10))
                   /\ Goto("save_components")
    /\ UNCHANGED << matches, files, user_wf, fpdata, arearef, written, engine >>

\* What a written file holds, as far as the driver decides it.  writefile
\* panics when the file cannot be created or written: the output paths are
\* taken to be writable.
Snapshot(file) == [file |-> file, components |-> components, fpdata |-> fpdata]

SaveComponents ==
    /\ Running("save_components")
    /\ UNCHANGED calc
    /\ written' = IF is_present(matches, "gen_archivo_componentes")
                  THEN Append(written, Snapshot("gen_archivo_componentes"))
                  ELSE written
    /\ Goto("save_wfactors")
    /\ UNCHANGED << matches, files, components, stdout, user_wf, fpdata, arearef, kexp,
                    engine >>

SaveWFactors ==
    /\ Running("save_wfactors")
    /\ UNCHANGED calc
    /\ written' = IF is_present(matches, "gen_archivo_factores")
                  THEN Append(written, Snapshot("gen_archivo_factores"))
                  ELSE written
    /\ Goto("balance")
    /\ UNCHANGED << matches, files, components, stdout, user_wf, fpdata, arearef, kexp,
                    engine >>

\* The name asked of the matches to tell that the factors file was generated
FactorsGeneratedArg == "gen_archivos_factores"

\* let balance = if !cdata.is_empty() { Some(energy_performance(..)) } else ...
\* The engine returns a balance or an error
ComputeBalance ==
    /\ Running("balance")
    /\ UNCHANGED calc
    /\ IF components.cdata # << >>
       THEN \E ok \in BOOLEAN :
               /\ engine' = Append(engine, [components |-> components, fpdata |-> fpdata,
                                            kexp |-> Get(kexp), arearef |-> Get(arearef),
                                            ok |-> ok])
               /\ IF ok THEN Goto("results") ELSE Exit("DATAERR")
               /\ UNCHANGED stdout
       ELSE /\ stdout' = stdout \cup
                         IF is_present(matches, FactorsGeneratedArg)
                         THEN { "NO_BALANCE_FACTORES_GENERADOS" }
                         ELSE { "NO_BALANCE_DATOS_INSUFICIENTES" }
            /\ Goto("results")
            /\ UNCHANGED engine
    /\ UNCHANGED << matches, files, components, user_wf, fpdata, arearef, kexp, written >>

\* The results written whatever the balance step left
HasBalanceUnchecked == TRUE

\* The balance returned by the engine, if any
HasBalance == engine # << >> /\ engine[Len(engine)].ok

\* if let Some(balance) = balance { json, xml, stdout, txt }; main returns
SaveResults ==
    /\ Running("results")
    /\ UNCHANGED calc
    /\ LET outs == << "archivo_salida_json", "archivo_salida_xml", "archivo_salida_txt" >>
           asked == SelectSeq(outs, LAMBDA o : is_present(matches, o))
       IN  written' = IF HasBalance
                      THEN written \o [i \in 1..Len(asked) |-> Snapshot(asked[i])]
                      ELSE written
    /\ stdout' = IF HasBalance THEN stdout \cup { "BALANCE" } ELSE stdout
    /\ pc' = "end"
    /\ exitcode' = "OK"
    /\ UNCHANGED << matches, files, components, user_wf, fpdata, arearef, kexp, engine >>

Next ==
    \/ GetMatches
    \/ ShowLicense
    \/ GetComponents
    \/ ComponentsByService
    \/ ValidateKexp
    \/ ValidateArearef
    \/ \E i \in 1..4 : GetUserWF(i)
    \/ GetWFactors
    \/ StripWFactors
    \/ WFactorsToNearby
    \/ GetArearef
    \/ GetKexp
    \/ SaveComponents
    \/ SaveWFactors
    \/ ComputeBalance
    \/ SaveResults

Spec == Init /\ [][Next]_vars

---------------------------------------------------------------------------
(* Vocabulary of the properties *)

PcOrder ==
    << "get_matches", "showlicense", "get_components", "components_by_service",
       "validate_kexp", "validate_arearef", "get_factor_1", "get_factor_2",
       "get_factor_3", "get_factor_4", "wfactors", "strip_wfactors",
       "wfactors_to_nearby", "get_arearef", "get_kexp", "save_components",
       "save_wfactors", "balance", "results", "end" >>

PcIndex(at) == CHOOSE i \in 1..Len(PcOrder) : PcOrder[i] = at

\* The process ended while executing the step
ExitedAt(step) == pc = step /\ exitcode # "running"

\* The step was executed and the run went on
Passed(step) == PcIndex(pc) > PcIndex(step)

\* The step was executed
Ran(step) == Passed(step) \/ ExitedAt(step)

Terminated == exitcode # "running"

\* The metadata of the components as read from the file, if one is given
InputMeta == IF IsSome(matches.archivo_componentes) THEN files.components.cmeta ELSE NoMeta

CliGiven(name) == IsSome(matches[name])

\* The number given on the command line for a scalar, if it is one
CliNumber(name) == IF CliGiven(name) THEN ParseF32(Get(matches[name])[1]) ELSE None

\* The number held by a metadata entry, if it holds one
MetaNumber(key) == IF IsSome(InputMeta[key]) THEN ParseF32(Get(InputMeta[key])) ELSE None

TypeOK ==
    /\ pc \in { PcOrder[i] : i \in 1..Len(PcOrder) }
    /\ exitcode \in { "running", "OK", "DATAERR", "IOERR", "USAGE", "CLAP_USAGE", "PANIC" }
    /\ Len(engine) <= 1

---------------------------------------------------------------------------
(* C1..C3: the scalars arearef and kexp *)

\* What the precedence CLI > metadata > default gives for a scalar
ByPrecedence(name, key, default) ==
    IF CliGiven(name) THEN CliNumber(name)
    ELSE IF IsSome(InputMeta[key]) THEN MetaNumber(key)
    ELSE Some(default)

\* C1: once get_arearef / get_kexp has been executed, the resolved value is the
\* one the precedence CLI > metadata > default gives: the CLI value whenever
\* the option was given, whatever the metadata holds.
C1_Precedence ==
    /\ Ran("get_arearef") =>
          arearef = ByPrecedence("arearef", "CTE_AREAREF", AREAREF_DEFAULT)
    /\ Ran("get_kexp") =>
          kexp = ByPrecedence("kexp", "CTE_KEXP", KEXP_DEFAULT)

\* C2: in every call of the balance engine the kexp passed is in [0, 1] and
\* the arearef passed is > 0.
C2_EngineArgsInRange ==
    \A i \in 1..Len(engine) :
        /\ 0 <= engine[i].kexp /\ engine[i].kexp <= Unit
        /\ engine[i].arearef > 0

\* The scalar options as the documentation asks for them
CliKexpDocumented ==
    CliGiven("kexp") => IsSome(CliNumber("kexp")) /\ Get(CliNumber("kexp")) \in 0..Unit
CliArearefDocumented ==
    CliGiven("arearef") => IsSome(CliNumber("arearef")) /\ Get(CliNumber("arearef")) > 0

RejectedByValidation ==
    (ExitedAt("validate_kexp") \/ ExitedAt("validate_arearef")) /\ exitcode = "DATAERR"

\* C3: once the validation of the command-line scalars has been executed, the
\* run has ended there with DATAERR if and only if the CLI kexp is outside
\* [0, 1] or the CLI arearef is not > 0 (or one is no number); on rejection no
\* factors are loaded, no file is written and the engine is not called.
C3_ValidationRanges ==
    /\ (ExitedAt("validate_kexp") \/ Ran("validate_arearef")) =>
          (RejectedByValidation <=> ~ (CliKexpDocumented /\ CliArearefDocumented))
    /\ RejectedByValidation =>
          fpdata = NoFpdata /\ written = << >> /\ engine = << >>

---------------------------------------------------------------------------
(* C4: where the factors come from *)

\* Neither a factors file nor a locality is available
NoFactorsSource ==
    /\ ~ CliGiven("archivo_factores")
    /\ ~ CliGiven("fps_loc")
    /\ ~ IsSome(InputMeta["CTE_LOCALIZACION"])

\* The locality given on the command line is the one the factors are made for
CliLocalityPreferred ==
    (fpdata.origin = "loc" /\ CliGiven("fps_loc")) =>
        fpdata.loc = Get(matches.fps_loc)[1].s

\* C4 as stated: a run with neither a factors file nor a locality ends with
\* exit code USAGE and no balance, and fps_loc is preferred to CTE_LOCALIZACION.
C4_UsageWhenNoSource ==
    /\ (NoFactorsSource /\ Terminated) => (exitcode = "USAGE" /\ engine = << >>)
    /\ CliLocalityPreferred

\* C4 amended: a run with neither a factors file nor a locality never gets
\* past the definition of the factors and never calls the engine; it ends with
\* USAGE when it reaches that step, and with the code of the earlier failure
\* (or OK for the licence) when it ends before; fps_loc is preferred to
\* CTE_LOCALIZACION.
C4_NoSourceNoBalance ==
    /\ NoFactorsSource =>
          /\ ~ Passed("wfactors")
          /\ engine = << >>
          /\ ExitedAt("wfactors") => exitcode = "USAGE"
          /\ (Terminated /\ exitcode = "OK") => ExitedAt("showlicense")
    /\ CliLocalityPreferred

C4_Witness ==
    /\ NoFactorsSource
    /\ ExitedAt("wfactors")
    /\ exitcode = "USAGE"
    /\ CliGiven("archivo_componentes")

---------------------------------------------------------------------------
(* C5, C6: notices about the scalars *)

\* The scalar is given on the command line and in the metadata, as numbers
BothGiven(name, key) == IsSome(CliNumber(name)) /\ IsSome(MetaNumber(key))

Differ(name, key) ==
    BothGiven(name, key) /\ Get(CliNumber(name)) # Get(MetaNumber(key))

DifferBeyondTolerance(name, key) ==
    BothGiven(name, key) /\ Gt1em3(Abs(Get(CliNumber(name)) - Get(MetaNumber(key))))

\* C5 as stated: once the scalar is resolved, the mismatch notice has been
\* printed exactly when the CLI value and the metadata value are both given
\* and differ, and then the CLI value is the one used.
C5_WarnOnAnyDifference ==
    /\ Ran("get_arearef") =>
          /\ "AVISO_AREAREF_NO_COINCIDE" \in stdout <=> Differ("arearef", "CTE_AREAREF")
          /\ Differ("arearef", "CTE_AREAREF") => arearef = CliNumber("arearef")
    /\ Ran("get_kexp") =>
          /\ "AVISO_KEXP_NO_COINCIDE" \in stdout <=> Differ("kexp", "CTE_KEXP")
          /\ Differ("kexp", "CTE_KEXP") => kexp = CliNumber("kexp")

\* C5 amended: once the scalar is resolved, the mismatch notice has been
\* printed exactly when the CLI value and the metadata value are both given
\* and differ by more than 1e-3, and the CLI value is used whenever both are
\* given; before the scalar is resolved no mismatch notice is printed.
C5_WarnBeyondTolerance ==
    /\ "AVISO_AREAREF_NO_COINCIDE" \in stdout <=>
          (Ran("get_arearef") /\ DifferBeyondTolerance("arearef", "CTE_AREAREF"))
    /\ (Ran("get_arearef") /\ BothGiven("arearef", "CTE_AREAREF")) =>
          arearef = CliNumber("arearef")
    /\ "AVISO_KEXP_NO_COINCIDE" \in stdout <=>
          (Ran("get_kexp") /\ DifferBeyondTolerance("kexp", "CTE_KEXP"))
    /\ (Ran("get_kexp") /\ BothGiven("kexp", "CTE_KEXP")) =>
          kexp = CliNumber("kexp")

C5_Witness ==
    /\ Passed("get_kexp")
    /\ "AVISO_KEXP_NO_COINCIDE" \in stdout
    /\ Get(CliNumber("kexp")) < Get(MetaNumber("CTE_KEXP"))
    /\ kexp = CliNumber("kexp")

\* C6: when the engine is called, the notice of a non regulatory k_exp has
\* been printed exactly when the kexp passed to it differs from the regulatory
\* default.
C6_NonRegulatoryNotice ==
    \A i \in 1..Len(engine) :
        "AVISO_KEXP_NO_REGLAMENTARIO" \in stdout <=> engine[i].kexp # KEXP_DEFAULT

---------------------------------------------------------------------------
(* C7: the balance and the factors file *)

FactorsFileWritten ==
    \E i \in 1..Len(written) : written[i].file = "gen_archivo_factores"

\* C7: once the balance step has been executed, the engine has been called if
\* and only if there are components; with no components and a factors output
\* file asked for, the file is written and the notice printed is the one of
\* the generated factors file, not the one of insufficient data.
C7_FactorsGeneratedBranch ==
    Ran("balance") =>
        /\ engine # << >> <=> components.cdata # << >>
        /\ (components.cdata = << >> /\ CliGiven("gen_archivo_factores")) =>
              /\ FactorsFileWritten
              /\ "NO_BALANCE_FACTORES_GENERADOS" \in stdout
              /\ "NO_BALANCE_DATOS_INSUFICIENTES" \notin stdout

---------------------------------------------------------------------------
(* C8..C10: the user factors *)

FactorOptions == { "red1", "red2", "cogen" }

\* The option is given with three numbers
ThreeNumbers(name) ==
    /\ CliGiven(name)
    /\ Len(Get(matches[name])) = 3
    /\ \A i \in 1..3 : IsSome(ParseF32(Get(matches[name])[i]))

\* The triple made of the three numbers given, in order
CliTriple(name) ==
    LET v == Get(matches[name])
    IN  [ren |-> Get(ParseF32(v[1])), nren |-> Get(ParseF32(v[2])),
         co2 |-> Get(ParseF32(v[3]))]

\* The triple held by a metadata entry, if it holds one
MetaTriple(key) ==
    IF /\ IsSome(InputMeta[key])
       /\ Get(InputMeta[key]).k = "num"
       /\ Len(Get(InputMeta[key]).v) = 3
    THEN LET v == Get(InputMeta[key]).v
         IN  Some([ren |-> ParseNumeral(v[1]), nren |-> ParseNumeral(v[2]),
                   co2 |-> ParseNumeral(v[3])])
    ELSE None

\* A usage error of the command line that is not about the user factors
OtherUsageError ==
    \/ ~ (CliGiven("archivo_factores") \/ CliGiven("fps_loc") \/ CliGiven("archivo_componentes"))
    \/ CliGiven("archivo_factores") /\ (\E n \in FactorOptions \cup { "fps_loc" } : CliGiven(n))
    \/ CliGiven("fps_loc") /\ Get(matches.fps_loc)[1].s \notin PossibleLocs
    \/ CliGiven("acsnrb") /\ ~ CliGiven("archivo_componentes")

GetFactorStep(name) ==
    CASE name = "red1" -> "get_factor_1"
      [] name = "red2" -> "get_factor_2"
      [] name = "cogen" -> "get_factor_3"

UserWFField(name) ==
    CASE name = "red1" -> "red1"
      [] name = "red2" -> "red2"
      [] name = "cogen" -> "cogen_to_grid"

\* C8: a command line whose user factors red1, red2, cogen are each absent or
\* given as three numbers is not rejected by the parser for them, and once
\* get_factor has been executed for a factor given as three numbers the run
\* has not ended there and the factor is the triple of those numbers, in order.
C8_ThreeValuesAccepted ==
    /\ (ExitedAt("get_matches") /\ \A n \in FactorOptions : CliGiven(n) => ThreeNumbers(n))
          => OtherUsageError
    /\ \A n \in FactorOptions :
          (ThreeNumbers(n) /\ Ran(GetFactorStep(n))) =>
              /\ ~ ExitedAt(GetFactorStep(n))
              /\ user_wf[UserWFField(n)] = Some(CliTriple(n))

C8_Witness ==
    /\ \A n \in FactorOptions : ThreeNumbers(n)
    /\ Passed("get_factor_3")
    /\ user_wf.red2 = Some(CliTriple("red2"))
    /\ Get(user_wf.red2).ren # Get(user_wf.red2).co2

\* What the precedence CLI > metadata > none gives for a user factor
FactorByPrecedence(name, key) ==
    IF name \in FactorOptions /\ CliGiven(name)
    THEN IF ThreeNumbers(name) THEN Some(CliTriple(name)) ELSE None
    ELSE MetaTriple(key)

\* C9: once get_factor has returned for a user factor, the factor is the CLI
\* triple when the option is given, else the triple of the metadata entry when
\* there is one, else None; and the factors are prepared with those values.
C9_FactorPrecedence ==
    /\ \A i \in 1..4 :
          Passed(<< "get_factor_1", "get_factor_2", "get_factor_3", "get_factor_4" >>[i]) =>
              user_wf[UserWFCalls[i].field] =
                  FactorByPrecedence(UserWFCalls[i].name, UserWFCalls[i].meta)
    /\ fpdata.origin # "unset" => fpdata.user_wf = user_wf

C9_Witness ==
    /\ Passed("wfactors")
    /\ CliGiven("red1") /\ IsSome(MetaTriple("CTE_RED1"))
    /\ user_wf.red1 = Some(CliTriple("red1"))
    /\ user_wf.red1 # MetaTriple("CTE_RED1")
    /\ ~ CliGiven("cogen") /\ user_wf.cogen_to_grid = MetaTriple("CTE_COGEN")
    /\ IsSome(user_wf.cogen_to_grid)
    /\ ~ CliGiven("red2") /\ ~ IsSome(InputMeta["CTE_RED2"]) /\ user_wf.red2 = None

\* C10: with a triple under CTE_COGENNEPB in the metadata, the run does not
\* end while that factor is resolved, and the cogen_to_nepb factor resolved
\* and handed to the preparation of the factors is that triple.
C10_CogenNepbFromMeta ==
    IsSome(MetaTriple("CTE_COGENNEPB")) =>
        /\ ~ ExitedAt("get_factor_4")
        /\ Passed("get_factor_4") => user_wf.cogen_to_nepb = MetaTriple("CTE_COGENNEPB")
        /\ fpdata.origin # "unset" =>
              fpdata.user_wf.cogen_to_nepb = MetaTriple("CTE_COGENNEPB")

C10_Witness ==
    /\ IsSome(MetaTriple("CTE_COGENNEPB"))
    /\ fpdata.origin = "loc"
    /\ fpdata.user_wf.cogen_to_nepb = MetaTriple("CTE_COGENNEPB")
    /\ IsSome(MetaTriple("CTE_COGEN"))

-----------------------------------------------------------------------------
\* --acs_nearby and the simplification of the factor table

\* The component data rows read from the components file, none without a file
InputRows == IF IsSome(matches.archivo_componentes) THEN files.components.cdata ELSE << >>

IsAcs(row) == row.service = "ACS"

\* The rows the run works with: those of the ACS service under --acs_nearby
WorkingRows == IF CliGiven("acsnrb") THEN SelectSeq(InputRows, IsAcs) ELSE InputRows

OpsOf(fp) == {fp.ops[i] : i \in 1..Len(fp.ops)}

Simplified(fp) == "strip_wfactors" \in OpsOf(fp)

Rewritten(fp) == "wfactors_to_nearby" \in OpsOf(fp)

\* The nearby rewrite is the last thing done to the table, after any simplification
RewrittenLast(fp) ==
    /\ fp.ops # << >>
    /\ fp.ops[Len(fp.ops)] = "wfactors_to_nearby"
    /\ \A i \in 1..(Len(fp.ops) - 1) : fp.ops[i] = "strip_wfactors"

\* C11: with --acs_nearby the components hold only the rows of the ACS service
\* from before the first user factor is resolved, so the factor table is
\* prepared and simplified against those rows and the balance gets them; the
\* table the balance gets and the table written to the factors output file is
\* the nearby rewrite, applied last, after any simplification.  Without
\* --acs_nearby the rows are those of the input and no table is ever rewritten.
C11_AcsNearby ==
    /\ Passed("components_by_service") => components.cdata = WorkingRows
    /\ (user_wf # NoUserWF \/ fpdata # NoFpdata \/ engine # << >>)
         => /\ components.cdata = WorkingRows
            /\ CliGiven("acsnrb") => \A i \in 1..Len(components.cdata) :
                                        components.cdata[i].service = "ACS"
    /\ Simplified(fpdata) => fpdata.carriers \subseteq
                                {WorkingRows[i].carrier : i \in 1..Len(WorkingRows)}
    /\ Passed("wfactors_to_nearby") =>
         IF CliGiven("acsnrb") THEN RewrittenLast(fpdata) ELSE ~ Rewritten(fpdata)
    /\ ~ Passed("wfactors_to_nearby") => ~ Rewritten(fpdata)
    /\ \A i \in 1..Len(engine) :
         /\ engine[i].components.cdata = WorkingRows
         /\ IF CliGiven("acsnrb") THEN RewrittenLast(engine[i].fpdata)
            ELSE ~ Rewritten(engine[i].fpdata)
    /\ \A i \in 1..Len(written) :
         written[i].file = "gen_archivo_factores" =>
            IF CliGiven("acsnrb") THEN RewrittenLast(written[i].fpdata)
            ELSE ~ Rewritten(written[i].fpdata)

\* An --acs_nearby run on rows of two services that wrote the factors file and
\* called the balance with the ACS row and the simplified, then rewritten table
C11_Witness ==
    /\ CliGiven("acsnrb")
    /\ Len(InputRows) = 2
    /\ FactorsFileWritten
    /\ engine # << >>
    /\ Len(engine[1].components.cdata) = 1
    /\ engine[1].fpdata.ops = << "strip_wfactors", "wfactors_to_nearby" >>
    /\ engine[1].fpdata.carriers = {"ELECTRICIDAD"}

\* C12 as stated: once the simplification step is behind, the table has been
\* simplified exactly when --no_simplifica_fps was not given.
C12_SimplifiedUnlessSwitch ==
    Passed("strip_wfactors") => (Simplified(fpdata) <=> ~ CliGiven("nosimplificafps"))

\* C12 amended: once the simplification step is behind, the table has been
\* simplified exactly when --no_simplifica_fps was not given and there is at
\* least one component data row; a simplified table holds the rows of the
\* carriers of the components and no other, a table not simplified holds all.
C12_SimplifiedUnlessSwitchOrEmpty ==
    /\ Passed("strip_wfactors") =>
         (Simplified(fpdata) <=> (~ CliGiven("nosimplificafps") /\ WorkingRows # << >>))
    /\ ~ Passed("strip_wfactors") => ~ Simplified(fpdata)
    /\ fpdata # NoFpdata =>
         fpdata.carriers = IF Simplified(fpdata)
                           THEN TableCarriers \cap CarriersOf(components)
                           ELSE TableCarriers

\* A run with the switch absent and components of one carrier, whose balance
\* got a table reduced to that carrier
C12_Witness ==
    /\ ~ CliGiven("nosimplificafps")
    /\ ~ CliGiven("acsnrb")
    /\ engine # << >>
    /\ Simplified(engine[1].fpdata)
    /\ engine[1].fpdata.carriers = {"GASNATURAL"}

-----------------------------------------------------------------------------
\* RenNrenCo2 (rennrenco2.rs) on its own.  The components of a triple are f32
\* values; here they are exact fractions << numerator, denominator >> in
\* lowest terms with a positive denominator, so that sums, products and
\* quotients are those of the reals: rounding, overflow to infinity and NaN of
\* f32 are outside this model.  A division by zero yields NotANumber.

MaxComp == 2

RECURSIVE GCD(_, _)
GCD(x, y) == IF y = 0 THEN x ELSE GCD(y, x % y)

NotANumber == << 0, 0 >>

\* The fraction n/d in lowest terms
Q(n, d) ==
    IF d = 0 THEN NotANumber
    ELSE LET g == GCD(Abs(n), Abs(d))
             sgn == IF d < 0 THEN -1 ELSE 1
         IN  << (sgn * n) \div g, (sgn * d) \div g >>

QZero == << 0, 1 >>
QOne == << 1, 1 >>
QAdd(x, y) == Q(x[1] * y[2] + y[1] * x[2], x[2] * y[2])
QSub(x, y) == Q(x[1] * y[2] - y[1] * x[2], x[2] * y[2])
QMul(x, y) == Q(x[1] * y[1], x[2] * y[2])
QDiv(x, y) == Q(x[1] * y[2], x[2] * y[1])
QLe(x, y) == x[1] * y[2] <= y[1] * x[2]
QMin(x, y) == IF QLe(x, y) THEN x ELSE y
QMax(x, y) == IF QLe(x, y) THEN y ELSE x

\* RenNrenCo2 { ren, nren, co2 }
RenNrenCo2(ren, nren, co2) == [ren |-> ren, nren |-> nren, co2 |-> co2]

\* RenNrenCo2::new() == Default::default()
new == RenNrenCo2(QZero, QZero, QZero)

tot(self) == QAdd(self.ren, self.nren)

\* The ratio computed without looking at the total first
rerUnguarded(self) == QDiv(self.ren, tot(self))

rer(self) == IF tot(self) = QZero THEN QZero ELSE QDiv(self.ren, tot(self))

add(self, other) ==
    RenNrenCo2(QAdd(self.ren, other.ren), QAdd(self.nren, other.nren),
               QAdd(self.co2, other.co2))

add_assign(self, other) ==
    RenNrenCo2(QAdd(self.ren, other.ren), QAdd(self.nren, other.nren),
               QAdd(self.co2, other.co2))

sub(self, other) ==
    RenNrenCo2(QSub(self.ren, other.ren), QSub(self.nren, other.nren),
               QSub(self.co2, other.co2))

sub_assign(self, other) ==
    RenNrenCo2(QSub(self.ren, other.ren), QSub(self.nren, other.nren),
               QSub(self.co2, other.co2))

\* RenNrenCo2 * f32 with the emissions left as they are
mulCo2Kept(self, rhs) == RenNrenCo2(QMul(self.ren, rhs), QMul(self.nren, rhs), self.co2)

\* RenNrenCo2 * f32
mul(self, rhs) ==
    RenNrenCo2(QMul(self.ren, rhs), QMul(self.nren, rhs), QMul(self.co2, rhs))

\* f32 * RenNrenCo2 with the emissions left as they are
mul_f32Co2Kept(self, rhs) ==
    RenNrenCo2(QMul(self, rhs.ren), QMul(self, rhs.nren), rhs.co2)

\* f32 * RenNrenCo2
mul_f32(self, rhs) ==
    RenNrenCo2(QMul(self, rhs.ren), QMul(self, rhs.nren), QMul(self, rhs.co2))

mul_assign(self, rhs) ==
    RenNrenCo2(QMul(self.ren, rhs), QMul(self.nren, rhs), QMul(self.co2, rhs))

\* Operands: halves from -1/2 to MaxComp/2 for the left triple, the two ends
\* of that range for the right triple, the ends and zero for the scalar
Comps == {Q(c, 2) : c \in -1..MaxComp}
EndComps == {Q(-1, 2), Q(MaxComp, 2)}
Triples(S) == {RenNrenCo2(r, n, c) : r \in S, n \in S, c \in S}
Scalars == EndComps \cup {QZero}

\* Nothing of main() runs while the library is exercised on its own
DriverIdle ==
    /\ matches = NoArgs
    /\ files = File("ok", NoMeta, << >>)
    /\ components = DefaultComponents
    /\ pc = "end"
    /\ exitcode = "OK"
    /\ stdout = {}
    /\ user_wf = NoUserWF
    /\ fpdata = NoFpdata
    /\ arearef = None
    /\ kexp = None
    /\ written = << >>
    /\ engine = << >>

driver == << matches, files, components, pc, exitcode, stdout, user_wf, fpdata,
             arearef, kexp, written, engine >>

\* let a, b: RenNrenCo2 and k: f32; a0 and b0 are the triples as first bound
InitTriple ==
    /\ DriverIdle
    /\ \E a \in Triples(Comps), b \in Triples(EndComps), k \in Scalars :
         calc = [op |-> "let", a |-> a, b |-> b, k |-> k, a0 |-> a, b0 |-> b,
                 out |-> None]

\* One operation is applied to the operands; out is the value it returns
Apply(op, a, out) ==
    /\ calc.op = "let"
    /\ calc' = [calc EXCEPT !.op = op, !.a = a, !.out = out]
    /\ UNCHANGED driver

Tot == Apply("tot", calc.a, Some(tot(calc.a)))
Rer == Apply("rer", calc.a, Some(rer(calc.a)))
Add == Apply("add", calc.a, Some(add(calc.a, calc.b)))
AddAssign == Apply("add_assign", add_assign(calc.a, calc.b), None)
Sub == Apply("sub", calc.a, Some(sub(calc.a, calc.b)))
SubAssign == Apply("sub_assign", sub_assign(calc.a, calc.b), None)
Mul == Apply("mul", calc.a, Some(mul(calc.a, calc.k)))
MulF32 == Apply("mul_f32", calc.a, Some(mul_f32(calc.k, calc.a)))
MulAssign == Apply("mul_assign", mul_assign(calc.a, calc.k), None)

NextTriple ==
    \/ Tot \/ Rer \/ Add \/ AddAssign \/ Sub \/ SubAssign \/ Mul \/ MulF32 \/ MulAssign

SpecTriple == InitTriple /\ [][NextTriple]_vars

NonNegative(x) == QLe(QZero, x)

\* C13: tot() is the sum of ren and nren; rer() never divides by zero: it is 0
\* when that sum is 0 and otherwise the number that multiplied by the sum gives
\* ren; for ren and nren not negative it lies between 0 and 1.
C13_TotRer ==
    /\ calc.op = "tot" =>
         /\ Get(calc.out) # NotANumber
         /\ QSub(Get(calc.out), calc.a0.nren) = calc.a0.ren
    /\ calc.op = "rer" =>
         LET sum == QAdd(calc.a0.ren, calc.a0.nren)
             out == Get(calc.out)
         IN  /\ out # NotANumber
             /\ sum = QZero => out = QZero
             /\ sum # QZero => QMul(out, sum) = calc.a0.ren
             /\ (NonNegative(calc.a0.ren) /\ NonNegative(calc.a0.nren))
                  => (QLe(QZero, out) /\ QLe(out, QOne))

\* rer() of a triple whose ren and nren cancel without being zero
C13_Witness ==
    /\ calc.op = "rer"
    /\ calc.a0.ren # QZero
    /\ QAdd(calc.a0.ren, calc.a0.nren) = QZero
    /\ calc.out = Some(QZero)

\* The fields of a triple
Fields == {"ren", "nren", "co2"}

\* C14: a + b and a - b are the sums and differences of the components taken
\* one by one; F * k and k * F are the same triple, each component of F times
\* k; after a += b, a -= b, a *= k the left operand is what a + b, a - b,
\* a * k return and the right operand is what it was.
C14_Componentwise ==
    /\ calc.op = "add" =>
         \A x \in Fields : Get(calc.out)[x] = QAdd(calc.a0[x], calc.b0[x])
    /\ calc.op = "sub" =>
         \A x \in Fields : Get(calc.out)[x] = QSub(calc.a0[x], calc.b0[x])
    /\ calc.op = "mul" =>
         \A x \in Fields : Get(calc.out)[x] = QMul(calc.a0[x], calc.k)
    /\ calc.op = "mul_f32" =>
         /\ \A x \in Fields : Get(calc.out)[x] = QMul(calc.k, calc.a0[x])
         /\ Get(calc.out) = mul(calc.a0, calc.k)
    /\ calc.op = "add_assign" => calc.a = add(calc.a0, calc.b0) /\ calc.b = calc.b0
    /\ calc.op = "sub_assign" => calc.a = sub(calc.a0, calc.b0) /\ calc.b = calc.b0
    /\ calc.op = "mul_assign" => calc.a = mul(calc.a0, calc.k) /\ calc.b = calc.b0
    /\ calc.op \in {"add", "sub", "mul", "mul_f32", "tot", "rer"} => calc.a = calc.a0

\* k * F for a scalar that changes every component of F
C14_Witness ==
    /\ calc.op = "mul_f32"
    /\ calc.k \notin {QZero, QOne}
    /\ calc.a0.ren # QZero /\ calc.a0.nren # QZero /\ calc.a0.co2 # QZero
    /\ Get(calc.out).co2 = QMul(calc.k, calc.a0.co2)
    /\ Get(calc.out).co2 # calc.a0.co2

-----------------------------------------------------------------------------
\* The balance engine (energy_performance), called by main() at line 612.  Its
\* code is not part of the sources at hand: the resolver and the weighted
\* balance below follow sections 4.2 and 4.4 of the specification, with the
\* names it uses, in the exact arithmetic of the triples above.

NSteps == 2
MaxE == 2

Steps == 1..NSteps
Carriers == << "ELECTRICIDAD", "GASNATURAL" >>
Origins == << "INSITU", "COGENERACION" >>
Services == << "ACS", "CAL" >>
RangeOf(seq) == {seq[i] : i \in 1..Len(seq)}

\* The sum of the first n values of a sequence of numbers, in order
RECURSIVE QSum(_, _)
QSum(f, n) == IF n = 0 THEN QZero ELSE QAdd(QSum(f, n - 1), f[n])

\* The sum of the first n values of a sequence of triples, in order
RECURSIVE TSum(_, _)
TSum(f, n) == IF n = 0 THEN new ELSE add(TSum(f, n - 1), f[n])

QPositive(x) == QLe(QZero, x) /\ x # QZero

\* The split computed without looking at the whole first
ShareUnguarded(x, part, whole) == QMul(x, QDiv(part, whole))

\* x * (part / whole), with the convention 0/0 = 0 and nothing split of nothing
Share(x, part, whole) == IF QPositive(whole) THEN QMul(x, QDiv(part, whole)) ELSE QZero

\* Section 4.2, for the rows cr of one carrier at the step t
E_pr_cr_pr_t(cr, o, t) == Q(cr.pr[o][t], 1)
E_pr_cr_t(cr, t) == QSum([i \in 1..Len(Origins) |-> E_pr_cr_pr_t(cr, Origins[i], t)],
                         Len(Origins))
E_EPus_cr_s_t(cr, s, t) == Q(cr.epus[s][t], 1)
E_EPus_cr_t(cr, t) == QSum([i \in 1..Len(Services) |-> E_EPus_cr_s_t(cr, Services[i], t)],
                           Len(Services))
E_nEPus_cr_t(cr, t) == Q(cr.nepus[t], 1)
E_pr_cr_used_EPus_t(cr, t) == QMin(E_EPus_cr_t(cr, t), E_pr_cr_t(cr, t))
E_pr_cr_used_nEPus_t(cr, t) ==
    QMin(E_nEPus_cr_t(cr, t), QSub(E_pr_cr_t(cr, t), E_pr_cr_used_EPus_t(cr, t)))
E_exp_cr_used_nEPus_t(cr, t) == E_pr_cr_used_nEPus_t(cr, t)
E_exp_cr_grid_t(cr, t) ==
    QSub(QSub(E_pr_cr_t(cr, t), E_pr_cr_used_EPus_t(cr, t)), E_exp_cr_used_nEPus_t(cr, t))
E_del_cr_t(cr, t) == QMax(QZero, QSub(E_EPus_cr_t(cr, t), E_pr_cr_used_EPus_t(cr, t)))

\* Allocation by origin, per step
ByOrigin(x, cr, o, t) == Share(x, E_pr_cr_pr_t(cr, o, t), E_pr_cr_t(cr, t))

\* Service allocation, per step
ByService(x, cr, s, t) == Share(x, E_EPus_cr_s_t(cr, s, t), E_EPus_cr_t(cr, t))

\* Everything the resolver derives for one carrier at one step
Resolved(cr, t) ==
    [E_pr |-> E_pr_cr_t(cr, t),
     E_EPus |-> E_EPus_cr_t(cr, t),
     E_nEPus |-> E_nEPus_cr_t(cr, t),
     E_pr_used_EPus |-> E_pr_cr_used_EPus_t(cr, t),
     E_pr_used_nEPus |-> E_pr_cr_used_nEPus_t(cr, t),
     E_exp_used_nEPus |-> E_exp_cr_used_nEPus_t(cr, t),
     E_exp_grid |-> E_exp_cr_grid_t(cr, t),
     E_del |-> E_del_cr_t(cr, t),
     E_pr_used_EPus_o |-> [o \in RangeOf(Origins) |->
                              ByOrigin(E_pr_cr_used_EPus_t(cr, t), cr, o, t)],
     E_exp_grid_o |-> [o \in RangeOf(Origins) |->
                              ByOrigin(E_exp_cr_grid_t(cr, t), cr, o, t)],
     E_exp_used_nEPus_o |-> [o \in RangeOf(Origins) |->
                              ByOrigin(E_exp_cr_used_nEPus_t(cr, t), cr, o, t)],
     E_del_s |-> [s \in RangeOf(Services) |-> ByService(E_del_cr_t(cr, t), cr, s, t)],
     E_pr_used_EPus_os |-> [o \in RangeOf(Origins) |-> [s \in RangeOf(Services) |->
          ByService(ByOrigin(E_pr_cr_used_EPus_t(cr, t), cr, o, t), cr, s, t)]]]

\* The resolver over all carriers and steps
resolve(comps) == [c \in RangeOf(Carriers) |-> [t \in Steps |-> Resolved(comps[c], t)]]

\* Component rows as series of one value per step.  Consumption is v in the
\* first n steps, production v in the last n steps, nothing elsewhere
FirstSteps(v, n) == [t \in Steps |-> IF t <= n THEN v ELSE 0]
LastSteps(v, n) == [t \in Steps |-> IF t > NSteps - n THEN v ELSE 0]
Consumptions == {FirstSteps(v, n) : v \in 1..MaxE, n \in Steps} \cup {FirstSteps(0, 0)}
Productions == {LastSteps(v, n) : v \in 1..MaxE, n \in Steps} \cup {LastSteps(0, 0)}
Steady == {FirstSteps(0, NSteps), FirstSteps(MaxE, NSteps)}

\* Electricity used by two services and outside the EPB uses, produced on
\* site and cogenerated; gas used for heating
EngineInputs ==
    {[ELECTRICIDAD |-> [pr |-> [INSITU |-> pi, COGENERACION |-> pg],
                        epus |-> [ACS |-> ea, CAL |-> ec], nepus |-> ne],
      GASNATURAL |-> [pr |-> [INSITU |-> FirstSteps(0, 0), COGENERACION |-> FirstSteps(0, 0)],
                      epus |-> [ACS |-> FirstSteps(0, 0), CAL |-> FirstSteps(1, NSteps)],
                      nepus |-> FirstSteps(0, 0)]] :
        pi \in Productions, pg \in Steady, ea \in Consumptions, ec \in Consumptions,
        ne \in Steady}

\* The values of k_exp: the default of the driver, a half and one
KExps == {Q(KEXP_DEFAULT, Unit), Q(1, 2), QOne}

\* The weighting factors of a prepared table (section 3): what is delivered by
\* the grid, what is produced and used on site (input), and what is exported
\* to the grid or to uses outside the EPB ones, at the steps A and B
F(c, source, dest, step) ==
    CASE dest = "input" /\ source = "RED" /\ c = "ELECTRICIDAD" ->
            RenNrenCo2(Q(1, 2), Q(2, 1), Q(1, 3))
      [] dest = "input" /\ source = "RED" -> RenNrenCo2(QZero, Q(6, 5), Q(1, 4))
      [] dest = "input" /\ source = "INSITU" -> RenNrenCo2(QOne, QZero, QZero)
      [] dest = "input" -> new
      [] step = "A" /\ source = "INSITU" -> RenNrenCo2(QOne, QZero, QZero)
      [] step = "A" -> RenNrenCo2(QZero, Q(5, 2), Q(3, 10))
      [] OTHER -> RenNrenCo2(Q(1, 2), Q(2, 1), Q(1, 3))

\* Section 4.4, step A, from the resolved quantities r of all carriers
B_used_EPus_an(r, c, s) ==
    TSum([t \in Steps |->
            TSum([i \in 1..Len(Origins) |->
                    mul_f32(r[c][t].E_pr_used_EPus_os[Origins[i]][s],
                            F(c, Origins[i], "input", "A"))], Len(Origins))], NSteps)

B_del_grid_an(r, c, s) ==
    TSum([t \in Steps |-> mul_f32(r[c][t].E_del_s[s], F(c, "RED", "input", "A"))], NSteps)

B_A_cs(r, c, s) == add(B_used_EPus_an(r, c, s), B_del_grid_an(r, c, s))

B_A(r, c) == TSum([i \in 1..Len(Services) |-> B_A_cs(r, c, Services[i])], Len(Services))

\* Section 4.4, step B
E_exp_cr_grid_an(r, c, o) == QSum([t \in Steps |-> r[c][t].E_exp_grid_o[o]], NSteps)

E_exp_cr_used_nEPus_an(r, c, o) ==
    QSum([t \in Steps |-> r[c][t].E_exp_used_nEPus_o[o]], NSteps)

\* The sum over the origins that k_exp multiplies
ExportCredit(r, c) ==
    TSum([i \in 1..Len(Origins) |->
            add(mul_f32(E_exp_cr_grid_an(r, c, Origins[i]),
                        sub(F(c, Origins[i], "to_grid", "B"),
                            F(c, Origins[i], "to_grid", "A"))),
                mul_f32(E_exp_cr_used_nEPus_an(r, c, Origins[i]),
                        sub(F(c, Origins[i], "to_nEPB", "B"),
                            F(c, Origins[i], "to_nEPB", "A"))))], Len(Origins))

B_B(r, c, k_exp) == sub(B_A(r, c), mul_f32(k_exp, ExportCredit(r, c)))

\* Aggregation: the weight of a service in the delivered-from-grid term of a
\* carrier is its part of the energy delivered over the year; the share is
\* zero when nothing was delivered
E_del_cr_s_an(r, c, s) == QSum([t \in Steps |-> r[c][t].E_del_s[s]], NSteps)

E_del_cr_an(r, c) == QSum([t \in Steps |-> r[c][t].E_del], NSteps)

B_B_cs(r, c, s, k_exp) ==
    sub(B_A_cs(r, c, s),
        mul(mul_f32(k_exp, ExportCredit(r, c)),
            Share(QOne, E_del_cr_s_an(r, c, s), E_del_cr_an(r, c))))

OverCarriers(f) == TSum([i \in 1..Len(Carriers) |-> f[Carriers[i]]], Len(Carriers))

\* The weighted balance of the resolved quantities r
balance(r, k_exp, area) ==
    LET A == [c \in RangeOf(Carriers) |-> B_A(r, c)]
        B == [c \in RangeOf(Carriers) |-> B_B(r, c, k_exp)]
        A_tot == OverCarriers(A)
        B_tot == OverCarriers(B)
    IN  [B_A |-> A,
         B_B |-> B,
         B_A_tot |-> A_tot,
         B_B_tot |-> B_tot,
         B_A_by_service |-> [s \in RangeOf(Services) |->
                OverCarriers([c \in RangeOf(Carriers) |-> B_A_cs(r, c, s)])],
         B_B_by_service |-> [s \in RangeOf(Services) |->
                OverCarriers([c \in RangeOf(Carriers) |-> B_B_cs(r, c, s, k_exp)])],
         B_B_m2 |-> mul(B_tot, QDiv(QOne, area)),
         RER |-> rer(B_tot)]

\* cte::energy_performance(&components, &fpdata, kexp, arearef)
energy_performance(comps, k_exp, area) == balance(resolve(comps), k_exp, area)

\* The engine is given components and k_exp; the area of reference is the
\* default of the driver
InitBalance ==
    /\ DriverIdle
    /\ \E comps \in EngineInputs, k \in KExps :
         calc = [op |-> "inputs", comps |-> comps, k_exp |-> k, res |-> None,
                 bal |-> None]

\* The resolver alone
Resolve ==
    /\ calc.op = "inputs"
    /\ calc' = [calc EXCEPT !.op = "resolve", !.res = Some(resolve(calc.comps))]
    /\ UNCHANGED driver

\* The rest of the engine: the balance of what the resolver derived
EnergyPerformance ==
    /\ calc.op = "resolve"
    /\ calc' = [calc EXCEPT !.op = "energy_performance",
                    !.bal = Some(balance(Get(calc.res), calc.k_exp,
                                         Q(AREAREF_DEFAULT, Unit)))]
    /\ UNCHANGED driver

NextBalance == Resolve \/ EnergyPerformance

SpecBalance == InitBalance /\ [][NextBalance]_vars

\* A number that is defined and not negative
Valid(x) == x # NotANumber /\ QLe(QZero, x)

OverOrigins(f) == QSum([i \in 1..Len(Origins) |-> f[Origins[i]]], Len(Origins))

\* The energy of the EPB uses and the production of a carrier at a step, as
\* the component rows give them
InputEPus(c, t) == Q(calc.comps[c].epus.ACS[t] + calc.comps[c].epus.CAL[t], 1)
InputPr(c, t) == Q(calc.comps[c].pr.INSITU[t] + calc.comps[c].pr.COGENERACION[t], 1)

\* C15: for every carrier and step, what the grid delivers plus the production
\* used by the EPB uses, summed over its origins, is the energy of the EPB
\* uses; what is used, exported to the grid and exported to other uses, summed
\* over the origins, is the production; and every derived quantity, also each
\* part by origin and by service, is a number not below zero.
C15_Conservation ==
    calc.op \in {"resolve", "energy_performance"} =>
        \A c \in RangeOf(Carriers), t \in Steps :
            LET q == Get(calc.res)[c][t]
            IN  /\ QAdd(q.E_del, OverOrigins(q.E_pr_used_EPus_o)) = InputEPus(c, t)
                /\ QAdd(OverOrigins(q.E_pr_used_EPus_o),
                        QAdd(OverOrigins(q.E_exp_grid_o),
                             OverOrigins(q.E_exp_used_nEPus_o))) = InputPr(c, t)
                /\ \A x \in {q.E_pr, q.E_EPus, q.E_nEPus, q.E_pr_used_EPus,
                             q.E_pr_used_nEPus, q.E_exp_used_nEPus, q.E_exp_grid,
                             q.E_del} : Valid(x)
                /\ \A o \in RangeOf(Origins) :
                     /\ Valid(q.E_pr_used_EPus_o[o])
                     /\ Valid(q.E_exp_grid_o[o])
                     /\ Valid(q.E_exp_used_nEPus_o[o])
                     /\ \A s \in RangeOf(Services) : Valid(q.E_pr_used_EPus_os[o][s])
                /\ \A s \in RangeOf(Services) : Valid(q.E_del_s[s])

\* Electricity with a step without production, where the grid delivers all the
\* energy used, and a step where more is produced than is used
C15_Witness ==
    /\ calc.op = "resolve"
    /\ \E t \in Steps :
         LET q == Get(calc.res).ELECTRICIDAD[t]
         IN  /\ q.E_pr = QZero
             /\ QPositive(q.E_EPus)
             /\ q.E_del = q.E_EPus
             /\ q.E_pr_used_EPus_o.INSITU = QZero
    /\ \E t \in Steps :
         LET q == Get(calc.res).ELECTRICIDAD[t]
         IN  /\ QPositive(q.E_EPus)
             /\ QPositive(q.E_exp_grid_o.INSITU)
             /\ q.E_pr_used_EPus_o.INSITU = q.E_EPus
             /\ q.E_del = QZero

\* The energy exported to the grid over the year by a carrier
ExportedToGrid(c) ==
    QSum([t \in Steps |-> Get(calc.res)[c][t].E_exp_grid], NSteps)

\* C16: with k_exp at its default of 0 the balance of step B is the balance of
\* step A, for every carrier and for the total, component by component.
C16_StepBEqualsStepA ==
    (calc.op = "energy_performance" /\ calc.k_exp = Q(KEXP_DEFAULT, Unit)) =>
        /\ \A c \in RangeOf(Carriers) : Get(calc.bal).B_B[c] = Get(calc.bal).B_A[c]
        /\ Get(calc.bal).B_B_tot = Get(calc.bal).B_A_tot

\* A balance with k_exp = 0 of components that export electricity to the grid
C16_Witness ==
    /\ calc.op = "energy_performance"
    /\ calc.k_exp = QZero
    /\ QPositive(ExportedToGrid("ELECTRICIDAD"))
    /\ Get(calc.bal).B_A_tot # new
    /\ Get(calc.bal).B_B_tot = Get(calc.bal).B_A_tot

OverServices(f) == TSum([i \in 1..Len(Services) |-> f[Services[i]]], Len(Services))

CreditAllocated(c) ==
    \/ mul_f32(calc.k_exp, ExportCredit(Get(calc.res), c)) = new
    \/ QPositive(E_del_cr_an(Get(calc.res), c))

-----------------------------------------------------------------------------
\* What the run writes back into the metadata of the components

UserWFStep(i) == << "get_factor_1", "get_factor_2", "get_factor_3", "get_factor_4" >>[i]

\* The metadata hold the resolved area of reference and the resolved k_exp
ScalarsWrittenBack ==
    /\ Passed("get_arearef") => get_meta_f32(components, "CTE_AREAREF") = arearef
    /\ Passed("get_kexp") => get_meta_f32(components, "CTE_KEXP") = kexp

\* The metadata hold the locality of the command line when there is one, and
\* the locality of the input otherwise
LocalityWrittenBack ==
    Passed("wfactors") =>
        get_meta(components, "CTE_LOCALIZACION") =
            IF CliGiven("fps_loc") THEN Some(Get(matches.fps_loc)[1])
            ELSE InputMeta["CTE_LOCALIZACION"]

\* Each factor key holds the resolved triple, or what the input held when
\* nothing was resolved for it
FactorsWrittenBack ==
    \A i \in 1..Len(UserWFCalls) :
        Passed(UserWFStep(i)) =>
            IF IsSome(user_wf[UserWFCalls[i].field])
            THEN get_meta_rennren(components, UserWFCalls[i].meta)
                    = user_wf[UserWFCalls[i].field]
            ELSE get_meta(components, UserWFCalls[i].meta) = InputMeta[UserWFCalls[i].meta]

\* No step after the restriction to a service touches the data rows
RowsKept == Passed("components_by_service") => components.cdata = WorkingRows

\* C18: after resolution CTE_AREAREF and CTE_KEXP hold the resolved arearef and
\* kexp, CTE_LOCALIZACION the locality of the command line when one was given,
\* each factor key the triple resolved for it and, when none was resolved,
\* what it held in the input; the data rows are not modified.
C18_WriteBack ==
    /\ ScalarsWrittenBack
    /\ LocalityWrittenBack
    /\ FactorsWrittenBack
    /\ RowsKept

-----------------------------------------------------------------------------
\* The order of the outputs of one run

InputOutputs == {"gen_archivo_componentes", "gen_archivo_factores"}
ResultOutputs == {"archivo_salida_json", "archivo_salida_xml", "archivo_salida_txt"}

WrittenFiles == {written[i].file : i \in 1..Len(written)}

\* C19: the components and factors output files asked for hold the inputs as
\* resolved (metadata updated, table simplified and rewritten): they are
\* written once k_exp is resolved and before the engine is called, with the
\* very components and table the engine gets, so they are there when the
\* balance fails with DATAERR; a result output (JSON, XML, text file) is there
\* only if the engine was called and returned a balance.
C19_OutputOrder ==
    /\ \A i \in 1..Len(written) :
         written[i].file \in InputOutputs =>
            /\ Passed("get_kexp")
            /\ IsSome(arearef) /\ IsSome(kexp)
            /\ written[i].components = components
            /\ written[i].fpdata = fpdata
            /\ IsSome(written[i].components.cmeta["CTE_AREAREF"])
            /\ IsSome(written[i].components.cmeta["CTE_KEXP"])
            /\ Simplified(written[i].fpdata) <=> Simplified(fpdata)
            /\ CliGiven("acsnrb") => RewrittenLast(written[i].fpdata)
    /\ (pc = "balance" \/ engine # << >>) =>
         \A f \in InputOutputs : CliGiven(f) => f \in WrittenFiles
    /\ \A j \in 1..Len(engine) : \A i \in 1..Len(written) :
         written[i].file \in InputOutputs =>
            /\ written[i].components = engine[j].components
            /\ written[i].fpdata = engine[j].fpdata
    /\ (WrittenFiles \cap ResultOutputs # {}) =>
         /\ engine # << >>
         /\ engine[Len(engine)].ok
         /\ pc = "end"
    /\ pc = "end" /\ engine # << >> =>
         \A f \in ResultOutputs : CliGiven(f) => f \in WrittenFiles

\* A run whose balance failed with DATAERR after both input files were
\* written, and whose JSON result, although asked for, was not
C19_Witness ==
    /\ ExitedAt("balance")
    /\ exitcode = "DATAERR"
    /\ engine # << >>
    /\ WrittenFiles = InputOutputs
    /\ CliGiven("archivo_salida_json")

=============================================================================
